---- MODULE Spec2Model ----
(***************************************************************************)
(* Draft Writer Bot: the generation pipeline of src/src/ui.py.             *)
(*                                                                         *)
(* The UI thread (Tk event loop) runs the handlers start_generate_task,    *)
(* clear_all_fields and the 100 ms timer check_ui_queue; every generation  *)
(* runs _run_async_generation on a fresh daemon thread that reports        *)
(* through three callbacks putting (kind, data) tuples on ui_update_queue. *)
(*                                                                         *)
(* Texts are sequences of tokens (short strings), so that concatenation,   *)
(* deletion and stripping are computed and not assumed.                    *)
(***************************************************************************)
EXTENDS Naturals, Sequences, FiniteSets, TLC

VARIABLES
    is_generating,       \* DraftBotApp.is_generating
    ui_update_queue,     \* DraftBotApp.ui_update_queue (queue.Queue, FIFO)
    draft,               \* content of generated_draft_text
    draft_state,         \* state of generated_draft_text: "normal" / "disabled"
    button,              \* state of generate_button: "normal" / "disabled"
    status,              \* text of status_label
    threads,             \* every generation thread started so far, in start order
    produced,            \* history: every tuple put on the queue, in put order
    applied,             \* history: every tuple handed to process_ui_update, in order
    lastAction,          \* history: the step taken last, the thread that took it
                         \* and the number of tuples it applied
    after_pending,       \* check_ui_queue callbacks scheduled with root.after
                         \* and not yet run
    call,                \* llm_interface: the arguments of a generate_draft call
                         \* and what the transport and the server do with it
    gd                   \* llm_interface: how far the call is and what it left

vars == <<is_generating, ui_update_queue, draft, draft_state, button, status,
          threads, produced, applied, lastAction, after_pending, call, gd>>

\* the state of a call of llm_interface.generate_draft
gdVars == <<call, gd>>

\* the state of the window, its queue and its threads
windowVars == <<is_generating, ui_update_queue, draft, draft_state, button,
                status, threads, produced, applied, lastAction, after_pending>>

uiVars == <<is_generating, draft, draft_state, button, status>>

----------------------------------------------------------------------------
(* Bounds of the model *)

\* generations that may be started in one run
MaxSessions == 2
\* fragments delivered in one run, over all generations
MaxChunks == 2

(* Values the environment may supply *)

\* what an input box may hold when start_generate_task reads it: blanks only,
\* or a text with blanks around it
InputTexts == { <<" ">>, <<" ", "hi", " ">> }
\* the text the model server streams, cut into the fragments it sends: the
\* k-th fragment delivered in a run is the k-th piece, so that all fragments
\* differ and any reordering, merging or loss shows in the text
Pieces == <<"Sure", ", I can.", " When", " do", " you", " need", " it?">>

Fragment(k) == << Pieces[((k - 1) % Len(Pieces)) + 1] >>

Fragments == { <<Pieces[i]>> : i \in 1 .. Len(Pieces) }
\* failure details the streaming client may report through on_error
ClientErrors == { <<"Connection Error: ", "http://localhost:11434">> }
\* exceptions that may escape the call run by the worker
Exceptions == { [type |-> "RuntimeError", msg |-> "boom"] }

----------------------------------------------------------------------------
(* ui.py constants *)

UPDATE_CHUNK == "CHUNK"
UPDATE_ERROR == "ERROR"
UPDATE_DONE == "DONE"

None == <<"None">>

error_prefix == <<"Error:\n">>

Whitespace == {" ", "\n", "\t"}

----------------------------------------------------------------------------
(* Helpers modelling library behaviour the handlers rely on *)

\* str.strip(): drop leading and trailing whitespace tokens
RECURSIVE lstrip(_)
lstrip(s) ==
    IF s # <<>> /\ Head(s) \in Whitespace THEN lstrip(Tail(s)) ELSE s

RECURSIVE rstrip(_)
rstrip(s) ==
    IF s # <<>> /\ s[Len(s)] \in Whitespace
    THEN rstrip(SubSeq(s, 1, Len(s) - 1))
    ELSE s

strip(s) == rstrip(lstrip(s))

\* The record of UI-owned state the handlers work on
UI == [is_generating |-> is_generating,
       draft         |-> draft,
       draft_state   |-> draft_state,
       button        |-> button,
       status        |-> status]

\* Tk text widget: insert and delete have no effect while the widget is disabled
textbox_insert(ui, text) ==
    IF ui.draft_state = "disabled" THEN ui
    ELSE [ui EXCEPT !.draft = @ \o text]

textbox_delete(ui) ==
    IF ui.draft_state = "disabled" THEN ui
    ELSE [ui EXCEPT !.draft = <<>>]

textbox_configure(ui, st) == [ui EXCEPT !.draft_state = st]

set_status(ui, message) == [ui EXCEPT !.status = message]

----------------------------------------------------------------------------
(* Handlers of the UI thread, as functions of the UI-owned state *)

\* variant: clear_all_fields resets the flag and leaves the button as it is
clear_all_fields_button_kept(ui) ==
    LET cleared == set_status(
                     textbox_configure(
                       textbox_delete(textbox_configure(ui, "normal")),
                       "disabled"),
                     "Ready")
    IN  [cleared EXCEPT !.is_generating = FALSE]

\* clear_all_fields: the output box is emptied and disabled, the status reset,
\* and a generation in flight is declared over (its thread is not stopped)
clear_all_fields(ui) ==
    LET cleared == set_status(
                     textbox_configure(
                       textbox_delete(textbox_configure(ui, "normal")),
                       "disabled"),
                     "Ready")
    IN  IF cleared.is_generating
        THEN [cleared EXCEPT !.is_generating = FALSE, !.button = "normal"]
        ELSE cleared

\* variant: the input boxes are tested as read, without strip()
input_required_unstripped(original_message, instruction) ==
    original_message = <<>> \/ instruction = <<>>

\* start_generate_task, lines 165-167: an input box is empty once stripped
input_required(original_message, instruction) ==
    strip(original_message) = <<>> \/ strip(instruction) = <<>>

\* start_generate_task, lines 169-175: the UI is prepared for a generation
prepare_ui(ui) ==
    textbox_delete(
      textbox_configure(
        set_status([ui EXCEPT !.is_generating = TRUE, !.button = "disabled"],
                   "Generating draft..."),
        "normal"))

\* lines 162-163 and 195-196: the texts the thread passes to the client are
\* the contents of the two input boxes, stripped
DraftRequest(original_message, instruction) ==
    [original_message |-> strip(original_message),
     instruction |-> strip(instruction)]

\* start_generate_task returned before it defined the thread
NoRequest == [original_message |-> <<>>, instruction |-> <<>>]

\* variant: start_generate_task without the is_generating guard of line 158
start_generate_task_unguarded(ui, original_message, instruction) ==
    IF input_required(original_message, instruction)
    THEN [ui |-> ui, spawn |-> FALSE, showwarning |-> TRUE,
          request |-> NoRequest]
    ELSE [ui |-> prepare_ui(ui), spawn |-> TRUE, showwarning |-> FALSE,
          request |-> DraftRequest(original_message, instruction)]

\* start_generate_task, up to the start of the thread: the UI state it leaves,
\* whether it shows the "Input Required" box (line 166), whether it goes on to
\* start a thread, and with what texts
start_generate_task(ui, original_message, instruction) ==
    IF ui.is_generating
    THEN [ui |-> ui, spawn |-> FALSE, showwarning |-> FALSE,
          request |-> NoRequest]
    ELSE IF input_required(original_message, instruction)
    THEN [ui |-> ui, spawn |-> FALSE, showwarning |-> TRUE,
          request |-> NoRequest]
    ELSE [ui |-> prepare_ui(ui), spawn |-> TRUE, showwarning |-> FALSE,
          request |-> DraftRequest(original_message, instruction)]

\* process_ui_update: one tuple from the queue applied to the UI
process_ui_update(ui, update_type, data) ==
    IF update_type = UPDATE_CHUNK
    THEN set_status(textbox_insert(ui, data), "Generating...")
    ELSE IF update_type = UPDATE_ERROR
    THEN LET shown == set_status(
                        textbox_insert(textbox_delete(ui), error_prefix \o data),
                        "Error occurred. See output box.")
         IN  textbox_configure(
               [shown EXCEPT !.is_generating = FALSE, !.button = "normal"],
               "disabled")
    ELSE IF update_type = UPDATE_DONE
    THEN textbox_configure(
           [set_status(ui, "Draft generated successfully.")
              EXCEPT !.is_generating = FALSE, !.button = "normal"],
           "disabled")
    ELSE ui

\* variant: a LifoQueue, the newest item leaves
get_nowait_lifo(q) ==
    [item |-> q[Len(q)], rest |-> SubSeq(q, 1, Len(q) - 1)]

\* queue.Queue.get_nowait on a non-empty queue: the oldest item leaves
get_nowait(q) == [item |-> Head(q), rest |-> Tail(q)]

\* the loop of check_ui_queue: get and apply until queue.Empty; the result is
\* the UI state, the tuples applied in order, and the queue left behind.  A put
\* made while the loop runs is a put made before the tick if the loop reaches
\* it and after the tick if not, so the tick is one step.
RECURSIVE drain(_, _, _)
drain(ui, q, log) ==
    IF q = <<>>
    THEN [ui |-> ui, log |-> log, q |-> q]
    ELSE LET got == get_nowait(q)
         IN  drain(process_ui_update(ui, got.item.kind, got.item.data),
                   got.rest, Append(log, got.item))

\* variant: a tick that resets the status whatever it found
check_ui_queue_touching(ui, q) ==
    LET r == drain(ui, q, <<>>)
    IN  [r EXCEPT !.ui = set_status(r.ui, "Ready")]

\* check_ui_queue: the loop, started with nothing applied
check_ui_queue(ui, q) == drain(ui, q, <<>>)

\* the loop of check_ui_queue when process_ui_update raises on the n-th tuple
\* it is handed (a widget call failing in Tk): the tuple has left the queue,
\* the failing call is the first statement of its branch and so leaves the UI
\* as it was, and the exception, which is not queue.Empty, ends the loop
RECURSIVE drain_raising(_, _, _, _)
drain_raising(ui, q, log, n) ==
    LET got == get_nowait(q)
    IN  IF n = 1
        THEN [ui |-> ui, log |-> Append(log, got.item), q |-> got.rest]
        ELSE drain_raising(process_ui_update(ui, got.item.kind, got.item.data),
                           got.rest, Append(log, got.item), n - 1)

\* variant: root.after is the last statement of the try block, so that an
\* exception leaving the loop skips it
check_ui_queue_finally_skipped(raised) == IF raised THEN 0 ELSE 1

\* the finally clause of check_ui_queue: the number of root.after calls made,
\* whether the loop ended with queue.Empty or with another exception
check_ui_queue_finally(raised) == 1

----------------------------------------------------------------------------
(* The worker thread's effects, as functions of the shared state           *)
(* sh = [ui, q]; s is the generation whose closure is called               *)

\* a tuple on the queue; session names the start_generate_task call whose
\* closure put it (the Python tuple holds kind and data only)
Event(kind, data, s) == [kind |-> kind, data |-> data, session |-> s]

\* variant: the callback writes the fragment into the text box itself
on_chunk_callback_direct(sh, s, chunk) ==
    [sh EXCEPT !.ui = textbox_insert(@, chunk),
               !.q = Append(@, Event(UPDATE_CHUNK, chunk, s))]

\* the three callbacks: each puts one tuple
on_chunk_callback(sh, s, chunk) ==
    [sh EXCEPT !.q = Append(@, Event(UPDATE_CHUNK, chunk, s))]

on_error_callback(sh, s, error_msg) ==
    [sh EXCEPT !.q = Append(@, Event(UPDATE_ERROR, error_msg, s))]

\* variant: DONE is put twice
on_done_callback_twice(sh, s) ==
    [sh EXCEPT !.q = Append(Append(@, Event(UPDATE_DONE, None, s)),
                            Event(UPDATE_DONE, None, s))]

on_done_callback(sh, s) ==
    [sh EXCEPT !.q = Append(@, Event(UPDATE_DONE, None, s))]

\* f"Error in background thread: {type(e).__name__} - {e}"
background_error_msg(e) ==
    <<"Error in background thread: ", e.type, " - ", e.msg>>

\* variant: the exception is swallowed
run_async_generation_except_silent(sh, s, e) == sh

\* variant: the ERROR carries the message only
run_async_generation_except_untyped(sh, s, e) ==
    [sh EXCEPT !.q = Append(@, Event(UPDATE_ERROR, <<e.msg>>, s))]

\* the except branch of _run_async_generation
run_async_generation_except(sh, s, e) ==
    [sh EXCEPT !.q = Append(@, Event(UPDATE_ERROR, background_error_msg(e), s))]

----------------------------------------------------------------------------
(* The state machine *)

Shared == [ui |-> UI, q |-> ui_update_queue]

\* the UI-owned variables take the values of the record ui
SetUI(ui) ==
    /\ is_generating' = ui.is_generating
    /\ draft' = ui.draft
    /\ draft_state' = ui.draft_state
    /\ button' = ui.button
    /\ status' = ui.status

Did(thread, op, n) == lastAction' = [thread |-> thread, op |-> op, applied |-> n]

\* lines 190-215: the thread started, with the texts its closure holds
NewThread(request) == [pc |-> "running", exc |-> <<>>, request |-> request]

Chunks(log) == SelectSeq(log, LAMBDA ev : ev.kind = UPDATE_CHUNK)

Sessions == 1 .. Len(threads)

\* no call of generate_draft is made by the window (ui.py calls the streaming
\* client)
NoCall == [original_message |-> <<>>, instruction |-> <<>>, model |-> <<>>,
           ollama_url |-> <<>>, env |-> 0]

NotCalled == [pc |-> "idle", draft |-> None, error |-> None, exc |-> "",
              posts |-> <<>>]

\* DraftBotApp.__init__ and _create_widgets
InitWindow ==
    /\ is_generating = FALSE
    /\ ui_update_queue = <<>>
    /\ draft = <<>>
    /\ draft_state = "disabled"
    /\ button = "normal"
    /\ status = "Ready"
    /\ threads = <<>>
    /\ produced = <<>>
    /\ applied = <<>>
    /\ lastAction = [thread |-> "ui", op |-> "__init__", applied |-> 0]
    \* line 41: __init__ runs check_ui_queue once, on the empty queue
    /\ after_pending = check_ui_queue_finally(FALSE)

Init ==
    /\ InitWindow
    /\ call = NoCall
    /\ gd = NotCalled

\* start_generate_task is called (lines 153-215), by the button or directly,
\* with the input boxes holding some texts
StartGenerateTask ==
    \E original_msg_text \in InputTexts, instruction_text \in InputTexts :
        LET r == start_generate_task(UI, original_msg_text, instruction_text)
        IN  /\ r.spawn => Len(threads) < MaxSessions
            /\ SetUI(r.ui)
            /\ threads' = IF r.spawn
                           THEN Append(threads, NewThread(r.request))
                           ELSE threads
            /\ Did("ui", IF r.showwarning THEN "start_generate_task: Input Required"
                                          ELSE "start_generate_task", 0)
            /\ UNCHANGED <<ui_update_queue, produced, applied, after_pending,
                           gdVars>>

\* "Clear All" is pressed (lines 102-123)
ClearAllFields ==
    /\ SetUI(clear_all_fields(UI))
    /\ Did("ui", "clear_all_fields", 0)
    /\ UNCHANGED <<ui_update_queue, threads, produced, applied, after_pending,
                   gdVars>>

\* the 100 ms timer fires (lines 218-233): a scheduled callback runs, and its
\* finally clause schedules the next
CheckUiQueue ==
    LET r == check_ui_queue(UI, ui_update_queue)
    IN  /\ after_pending > 0
        /\ SetUI(r.ui)
        /\ ui_update_queue' = r.q
        /\ applied' = applied \o r.log
        /\ after_pending' = (after_pending - 1) + check_ui_queue_finally(FALSE)
        /\ Did("ui", "check_ui_queue", Len(r.log))
        /\ UNCHANGED <<threads, produced, gdVars>>

\* the timer fires and process_ui_update raises on one of the tuples waiting
CheckUiQueueRaises ==
    \E n \in 1 .. Len(ui_update_queue) :
        LET r == drain_raising(UI, ui_update_queue, <<>>, n)
        IN  /\ after_pending > 0
            /\ SetUI(r.ui)
            /\ ui_update_queue' = r.q
            /\ applied' = applied \o r.log
            /\ after_pending' = (after_pending - 1) + check_ui_queue_finally(TRUE)
            /\ Did("ui", "check_ui_queue raised", Len(r.log))
            /\ UNCHANGED <<threads, produced, gdVars>>

\* a step of the worker thread of generation s that leaves the shared state sh
\* and the thread as t.  A thread ends in the step of its last put: nothing
\* in the program reads whether a thread is still alive, so the time between
\* the put and the end of the thread shows in no variable but pc.
WorkerStep(s, sh, t) ==
    /\ SetUI(sh.ui)
    /\ ui_update_queue' = sh.q
    /\ produced' = produced \o SubSeq(sh.q, Len(ui_update_queue) + 1, Len(sh.q))
    /\ threads' = [threads EXCEPT ![s] = t]
    /\ Did("worker", "_run_async_generation", 0)
    /\ UNCHANGED <<applied, after_pending, gdVars>>

\* the streaming client delivers a fragment
ClientChunk(s) ==
    LET chunk == Fragment(Len(Chunks(produced)) + 1)
    IN  /\ threads[s].pc = "running"
        /\ Len(Chunks(produced)) < MaxChunks
        /\ WorkerStep(s, on_chunk_callback(Shared, s, chunk), threads[s])

\* the streaming client reports the end of the stream and returns
ClientDone(s) ==
    /\ threads[s].pc = "running"
    /\ WorkerStep(s, on_done_callback(Shared, s),
                  [threads[s] EXCEPT !.pc = "finished"])

\* the streaming client reports a failure and returns
ClientError(s) ==
    \E detail \in ClientErrors :
        /\ threads[s].pc = "running"
        /\ WorkerStep(s, on_error_callback(Shared, s, detail),
                      [threads[s] EXCEPT !.pc = "finished"])

\* asyncio.run(generate_draft_async(...)) raises, and the except branch runs
ClientRaises(s) ==
    \E e \in Exceptions :
        /\ threads[s].pc = "running"
        /\ WorkerStep(s, run_async_generation_except(Shared, s, e),
                      [threads[s] EXCEPT !.pc = "finished", !.exc = <<e>>])

Worker(s) ==
    /\ s \in Sessions
    /\ \/ ClientChunk(s)
       \/ ClientDone(s)
       \/ ClientError(s)
       \/ ClientRaises(s)

Next ==
    \/ StartGenerateTask
    \/ ClearAllFields
    \/ CheckUiQueue
    \/ \E s \in Sessions : ClientChunk(s)
    \/ \E s \in Sessions : ClientDone(s)
    \/ \E s \in Sessions : ClientError(s)
    \/ \E s \in Sessions : ClientRaises(s)

Spec == Init /\ [][Next]_vars

\* The same program in a window where a widget call may fail
TimerNext ==
    \/ Next
    \/ CheckUiQueueRaises

TimerSpec == Init /\ [][TimerNext]_vars

\* The Tk event loop keeps firing the timer, and a started thread keeps running
\* until its call returns or raises
LiveSpec ==
    /\ Init
    /\ [][Next]_vars
    /\ WF_vars(CheckUiQueue)
    /\ \A s \in 1 .. MaxSessions : WF_vars(Worker(s))

----------------------------------------------------------------------------
(* llm_interface.py: generate_draft.  Texts are sequences of tokens; a "/"  *)
(* of a URL is a token of its own, so that stripping and joining show.      *)

DEFAULT_MODEL == <<"qwen2.5:0.5b">>

DEFAULT_OLLAMA_URL == <<"http://localhost:11434">>

REQUEST_TIMEOUT == 60

\* text is found in whole, as it stands, inside the text msg
Contains(msg, text) ==
    \E i \in 0 .. Len(msg) - Len(text) : SubSeq(msg, i + 1, i + Len(text)) = text

\* str.rstrip(chars)
RECURSIVE rstrip_chars(_, _)
rstrip_chars(s, chars) ==
    IF s # <<>> /\ s[Len(s)] \in chars
    THEN rstrip_chars(SubSeq(s, 1, Len(s) - 1), chars)
    ELSE s

(* Exceptions: the class, type(e).__name__, the classes the exception is an *)
(* instance of, and str(e)                                                  *)

Exc(class, name, bases, msg) ==
    [class |-> class, name |-> name,
     bases |-> bases \cup {class, "Exception"}, msg |-> msg]

NoExc == [class |-> "", name |-> "", bases |-> {}, msg |-> <<>>]

\* requests.exceptions, as the transport raises them from requests.post
ConnectionRefused ==
    Exc("requests.ConnectionError", "ConnectionError", {"requests.RequestException", "OSError"},
        <<"Connection refused">>)

\* class ConnectTimeout(ConnectionError, Timeout)
ConnectTimeout ==
    Exc("requests.ConnectTimeout", "ConnectTimeout",
        {"requests.ConnectionError", "requests.Timeout",
         "requests.RequestException", "OSError"},
        <<"Connection timed out">>)

\* class ReadTimeout(Timeout)
ReadTimeout ==
    Exc("requests.ReadTimeout", "ReadTimeout",
        {"requests.Timeout", "requests.RequestException", "OSError"},
        <<"Read timed out">>)

TooManyRedirects ==
    Exc("requests.TooManyRedirects", "TooManyRedirects", {"requests.RequestException", "OSError"},
        <<"Exceeded 30 redirects">>)

PostExceptions == {ConnectionRefused, ConnectTimeout, ReadTimeout, TooManyRedirects}

\* what response.raise_for_status() raises
HTTPError(status_code) ==
    Exc("requests.HTTPError", "HTTPError", {"requests.RequestException", "OSError"},
        <<ToString(status_code), " Error">>)

\* what response.json() raises on a body that is not JSON: the class depends on
\* the version of requests installed and on whether simplejson is installed
\* (setup.py asks for "requests", any version)
StdJSONDecodeError ==
    Exc("json.JSONDecodeError", "JSONDecodeError", {"ValueError"}, <<"Expecting value">>)

SimpleJSONDecodeError ==
    Exc("simplejson.JSONDecodeError", "JSONDecodeError", {"ValueError"}, <<"Expecting value">>)

RequestsJSONDecodeError ==
    Exc("requests.JSONDecodeError", "JSONDecodeError",
        {"requests.InvalidJSONError", "requests.RequestException", "OSError",
         "json.JSONDecodeError", "ValueError"},
        <<"Expecting value">>)

RequestsSimpleJSONDecodeError ==
    Exc("requests.JSONDecodeError", "JSONDecodeError",
        {"requests.InvalidJSONError", "requests.RequestException", "OSError",
         "simplejson.JSONDecodeError", "ValueError"},
        <<"Expecting value">>)

DecodeErrors == {StdJSONDecodeError, SimpleJSONDecodeError,
                 RequestsJSONDecodeError, RequestsSimpleJSONDecodeError}

\* what the JSON decoder raises on a body nested too deep
RecursionError ==
    Exc("RecursionError", "RecursionError", {"RuntimeError"},
        <<"maximum recursion depth exceeded">>)

\* exceptions of Python itself
PyError(class) == Exc(class, class, {}, <<class, " raised">>)

(* JSON values as Python holds them: the kind, str(value), and the members   *)
(* of an object (key and value) or of an array (value)                       *)

JStr(text) == [kind |-> "string", text |-> text, members |-> <<>>]

JNull == [kind |-> "null", text |-> <<"None">>, members |-> <<>>]

JTrue == [kind |-> "bool", text |-> <<"True">>, members |-> <<>>]

JNum(text) == [kind |-> "number", text |-> text, members |-> <<>>]

JArr(items, repr) ==
    [kind |-> "array", text |-> repr,
     members |-> [i \in 1 .. Len(items) |-> [key |-> "", value |-> items[i]]]]

JObj(members, repr) == [kind |-> "object", text |-> repr, members |-> members]

Member(key, value) == [key |-> key, value |-> value]

Keys(v) == { v.members[i].key : i \in 1 .. Len(v.members) }

Lookup(v, key) ==
    v.members[CHOOSE i \in 1 .. Len(v.members) : v.members[i].key = key].value

\* the result of a Python expression: a value, or an exception raised
Value(v) == [raised |-> FALSE, value |-> v, exc |-> NoExc]

Raised(e) == [raised |-> TRUE, value |-> JNull, exc |-> e]

\* key in v
py_in(key, v) ==
    IF v.kind = "object" THEN Value(key \in Keys(v))
    ELSE IF v.kind = "array"
    THEN Value(\E i \in 1 .. Len(v.members) :
                  v.members[i].value = JStr(<<key>>))
    ELSE IF v.kind = "string" THEN Value(Contains(v.text, <<key>>))
    ELSE Raised(PyError("TypeError"))

\* v[key], key a string
py_getitem(v, key) ==
    IF v.kind = "object"
    THEN IF key \in Keys(v) THEN Value(Lookup(v, key))
         ELSE Raised(PyError("KeyError"))
    ELSE Raised(PyError("TypeError"))

\* v.get(key, default)
py_get(v, key, default) ==
    IF v.kind = "object"
    THEN Value(IF key \in Keys(v) THEN Lookup(v, key) ELSE default)
    ELSE Raised(PyError("AttributeError"))

\* variant: v.lstrip()
py_lstrip(v) ==
    IF v.kind = "string" THEN Value(JStr(lstrip(v.text)))
    ELSE Raised(PyError("AttributeError"))

\* v.strip()
py_strip(v) ==
    IF v.kind = "string" THEN Value(JStr(strip(v.text)))
    ELSE Raised(PyError("AttributeError"))

\* str(v), as an f-string formats it
py_str(v) == v.text

(* What the server may answer *)

\* a success, a status that is neither a success nor an error of the client or
\* the server (raise_for_status lets it pass), and a server error
StatusCodes == {200, 300, 503}

Body(text, json) == [text |-> text, valid |-> TRUE, deep |-> FALSE, json |-> json]

NotJson(text) == [text |-> text, valid |-> FALSE, deep |-> FALSE, json |-> JNull]

TooDeep(text) == [text |-> text, valid |-> TRUE, deep |-> TRUE, json |-> JNull]

\* the bodies a response may carry: the raw text, and the value it parses to
Bodies ==
    << \* the answer of /api/chat, the content with blanks around it
       Body(<<"{\"message\": {\"role\": \"assistant\", \"content\": \"",
              " ", "Sure, I can.", " ", "\"}, \"done\": true}">>,
            JObj(<<Member("message",
                          JObj(<<Member("role", JStr(<<"assistant">>)),
                                 Member("content",
                                        JStr(<<" ", "Sure, I can.", " ">>))>>,
                               <<"{'role': ..., 'content': ...}">>)),
                   Member("done", JTrue)>>,
                 <<"{'message': ..., 'done': True}">>)),
       \* an object with neither message nor error
       Body(<<"{\"model\": \"qwen2.5:0.5b\", \"done\": true}">>,
            JObj(<<Member("model", JStr(DEFAULT_MODEL)),
                   Member("done", JTrue)>>,
                 <<"{'model': 'qwen2.5:0.5b', 'done': True}">>)),
       \* the server's error object
       Body(<<"{\"error\": \"", "model is loading", "\"}">>,
            JObj(<<Member("error", JStr(<<"model is loading">>))>>,
                 <<"{'error': 'model is loading'}">>)),
       \* a message without content
       Body(<<"{\"message\": {\"role\": \"assistant\"}}">>,
            JObj(<<Member("message",
                          JObj(<<Member("role", JStr(<<"assistant">>))>>,
                               <<"{'role': 'assistant'}">>))>>,
                 <<"{'message': {'role': 'assistant'}}">>)),
       \* a message that is a string
       Body(<<"{\"message\": \"", "content", "\"}">>,
            JObj(<<Member("message", JStr(<<"content">>))>>,
                 <<"{'message': 'content'}">>)),
       \* a content that is null
       Body(<<"{\"message\": {\"content\": null}}">>,
            JObj(<<Member("message",
                          JObj(<<Member("content", JNull)>>,
                               <<"{'content': None}">>))>>,
                 <<"{'message': {'content': None}}">>)),
       \* JSON that is not an object: an array, a number, null, a string
       Body(<<"[\"", "message", "\"]">>,
            JArr(<<JStr(<<"message">>)>>, <<"['message']">>)),
       Body(<<"5">>, JNum(<<"5">>)),
       Body(<<"null">>, JNull),
       Body(<<"\"", "message", "\"">>, JStr(<<"message">>)),
       \* not JSON: a gateway's page, a truncated object
       NotJson(<<"<html><body>", "Gateway Timeout", "</body></html>">>),
       NotJson(<<"{\"message\":">>),
       \* JSON nested deeper than the decoder's recursion limit
       TooDeep(<<"[[[[", "...", "]]]]">>),
       \* a message that is null
       Body(<<"{\"message\": null, \"done\": true}">>,
            JObj(<<Member("message", JNull), Member("done", JTrue)>>,
                 <<"{'message': None, 'done': True}">>)),
       \* a content with line breaks and blanks around and inside it, no done
       Body(<<"{\"message\": {\"content\": \"",
              "\n", " ", "Sure,", " ", "I can.", "\t", " ", "\"}}">>,
            JObj(<<Member("message",
                          JObj(<<Member("content",
                                        JStr(<<"\n", " ", "Sure,", " ", "I can.",
                                               "\t", " ">>))>>,
                               <<"{'content': ...}">>))>>,
                 <<"{'message': {'content': ...}}">>)),
       \* a content of blanks only
       Body(<<"{\"message\": {\"content\": \"", " ", " ", "\"}, \"done\": true}">>,
            JObj(<<Member("message",
                          JObj(<<Member("content", JStr(<<" ", " ">>))>>,
                               <<"{'content': '  '}">>)),
                   Member("done", JTrue)>>,
                 <<"{'message': {'content': '  '}, 'done': True}">>)) >>

\* the transport and the server, as one call meets them: what requests.post
\* raises if it raises, and else the status and the body of the response and
\* the exception response.json() raises on a body that is not JSON
PostRaises(e) ==
    [post |-> e, status_code |-> 0, body |-> 0, decode_error |-> NoExc]

Responds(status_code, body, decode_error) ==
    [post |-> NoExc, status_code |-> status_code, body |-> body,
     decode_error |-> decode_error]

Envs ==
    { PostRaises(e) : e \in PostExceptions }
    \cup { Responds(s, b, d) :
             s \in StatusCodes, b \in 1 .. Len(Bodies), d \in DecodeErrors }

OllamaUrls ==
    { DEFAULT_OLLAMA_URL,
      DEFAULT_OLLAMA_URL \o <<"/">>,
      DEFAULT_OLLAMA_URL \o <<"/", "/">> }

\* the model asked for: the default, or one the caller names
Models == { DEFAULT_MODEL, <<"llama3:8b">> }

\* the message received, as the caller passes it: generate_draft does not trim
OriginalMessages ==
    { <<"Can you review this document?">>,
      <<" ", "Can you review", "\n", "this \"document\"?", "\n">> }

Call(original_message, instruction, model, ollama_url, env) ==
    [original_message |-> original_message, instruction |-> instruction,
     model |-> model, ollama_url |-> ollama_url, env |-> env]

Calls ==
    { Call(om, <<"Ask when they need it by.">>, m, u, env) :
        om \in OriginalMessages, m \in Models, u \in OllamaUrls, env \in Envs }

(* generate_draft *)

\* variant: the base URL is joined as it is configured
full_url_unstripped(ollama_url) == ollama_url \o <<"/", "api", "/", "chat">>

\* line 46
full_url(ollama_url) == rstrip_chars(ollama_url, {"/"}) \o <<"/", "api", "/", "chat">>

\* lines 53-64
prompt(original_message, instruction) ==
    <<"The user received the following message from someone else:\n\"\"\"\n">>
    \o original_message
    \o <<"\n\"\"\"\n\nThe user wants to send a reply based on this instruction: \"">>
    \o instruction
    \o <<"\"\n\nDraft a message that the user can send as their reply. ...",
         "\n\nReply Draft:">>

\* lines 69-75
messages(content) == << [role |-> "user", content |-> content] >>

\* variant: the payload asks for a streamed answer
payload_streaming(model, msgs) ==
    [model |-> model, messages |-> msgs, stream |-> TRUE]

\* lines 78-84
payload(model, msgs) ==
    [model |-> model, messages |-> msgs, stream |-> FALSE]

\* requests.post(url, json=..., timeout=...)
Request(url, json, timeout) ==
    [method |-> "POST", url |-> url, json |-> json, timeout |-> timeout]

Response(env) == [status_code |-> env.status_code, body |-> Bodies[env.body]]

\* no response is bound when requests.post raises
NoResponse == [status_code |-> 0, body |-> NotJson(<<>>)]

\* requests.post: the exception raised, or the response
requests_post(env, req) ==
    IF env.post # NoExc
    THEN [raised |-> TRUE, exc |-> env.post, response |-> NoResponse]
    ELSE [raised |-> FALSE, exc |-> NoExc, response |-> Response(env)]

\* response.raise_for_status(): HTTPError for a 4xx or 5xx status
raise_for_status(resp) ==
    IF resp.status_code >= 400 /\ resp.status_code < 600
    THEN Raised(HTTPError(resp.status_code))
    ELSE Value(JNull)

\* response.json()
response_json(resp, decode_error) ==
    IF resp.body.deep THEN Raised(RecursionError)
    ELSE IF ~resp.body.valid THEN Raised(decode_error)
    ELSE Value(resp.body.json)

\* how the try block, or the whole call, ends: with a returned pair, or with
\* an exception raised
Return(draft_text, error_msg) ==
    [raised |-> FALSE, draft |-> draft_text, error |-> error_msg, exc |-> NoExc]

Raise(e) == [raised |-> TRUE, draft |-> None, error |-> None, exc |-> e]

\* variant: the unexpected format is reported with no message
unexpected_format_silent == Return(None, None)

\* lines 114-118
unexpected_format ==
    Return(None, <<"Unexpected response format from Ollama",
                   ": Missing 'message' or 'content' key.">>)

\* variant: a response with done true is a success, with or without content
process_response_done_first(response_data) ==
    LET is_done == /\ response_data.kind = "object"
                   /\ "done" \in Keys(response_data)
                   /\ Lookup(response_data, "done") = JTrue
        msg_value == py_get(response_data, "message", JObj(<<>>, <<"{}">>))
        content   == py_get(msg_value.value, "content", JStr(<<>>))
    IN  IF is_done
        THEN IF ~msg_value.raised /\ ~content.raised
                /\ content.value.kind = "string"
             THEN Return(strip(content.value.text), None)
             ELSE Return(<<>>, None)
        ELSE unexpected_format

\* lines 109-118: the parsed response is looked into
process_response(response_data) ==
    LET has_message == py_in("message", response_data)
        msg_value   == py_getitem(response_data, "message")
        has_content == py_in("content", msg_value.value)
        content     == py_getitem(msg_value.value, "content")
        stripped    == py_strip(content.value)
    IN  IF has_message.raised THEN Raise(has_message.exc)
        ELSE IF ~has_message.value THEN unexpected_format
        ELSE IF msg_value.raised THEN Raise(msg_value.exc)
        ELSE IF has_content.raised THEN Raise(has_content.exc)
        ELSE IF ~has_content.value THEN unexpected_format
        ELSE IF content.raised THEN Raise(content.exc)
        ELSE IF stripped.raised THEN Raise(stripped.exc)
        ELSE Return(stripped.value.text, None)

\* lines 87-118: the try block; the request it sends, the response it binds
\* and how it ends
try_block(c) ==
    LET req     == Request(full_url(c.ollama_url),
                           payload(c.model,
                                   messages(prompt(c.original_message,
                                                   c.instruction))),
                           REQUEST_TIMEOUT)
        sent    == requests_post(c.env, req)
        checked == raise_for_status(sent.response)
        parsed  == response_json(sent.response, c.env.decode_error)
    IN  [posts    |-> <<req>>,
         response |-> sent.response,
         ended    |-> IF sent.raised THEN Raise(sent.exc)
                      ELSE IF checked.raised THEN Raise(checked.exc)
                      ELSE IF parsed.raised THEN Raise(parsed.exc)
                      ELSE process_response(parsed.value)]

\* variant: the message does not name the URL
connection_error_msg_no_url(url) ==
    <<"Connection Error", ": Could not connect to Ollama.", " Is Ollama running?">>

\* line 124
connection_error_msg(url) ==
    <<"Connection Error", ": Could not connect to Ollama at ">> \o url
    \o <<". Is Ollama running?">>

\* line 130
timeout_error_msg ==
    <<"Timeout Error", ": Request to Ollama timed out after ",
      ToString(REQUEST_TIMEOUT), " seconds.">>

\* lines 134-146: the HTTPError handler; an exception raised by its inner try
\* block that is none of JSONDecodeError (of json), AttributeError, NameError
\* leaves the handler, and so the function
except_http_error(http_err, resp, decode_error) ==
    LET error_msg == <<"HTTP Error", ": ">> \o http_err.msg
                     \o <<". Status Code: ", ToString(resp.status_code)>>
        parsed    == response_json(resp, decode_error)
        detail    == py_get(parsed.value, "error", JStr(resp.body.text))
        inner     == IF parsed.raised THEN parsed.exc
                     ELSE IF detail.raised THEN detail.exc
                     ELSE NoExc
        caught    == {"json.JSONDecodeError", "AttributeError", "NameError"}
    IN  IF inner = NoExc
        THEN Return(None, error_msg \o <<"\nOllama Response: ">>
                          \o py_str(detail.value))
        ELSE IF inner.bases \cap caught # {}
        THEN Return(None, error_msg \o <<"\nRaw Response: ">> \o resp.body.text)
        ELSE Raise(inner)

\* line 150
request_error_msg(req_err) ==
    <<"Request Error",
      ": An unexpected error occurred during the request: ">> \o req_err.msg

\* lines 156-159
json_decode_error_msg(resp) ==
    <<"JSON Decode Error", ": Could not decode JSON response from Ollama.",
      "\nRaw Response: ">> \o resp.body.text

\* line 165
unexpected_error_msg(e) ==
    <<"An unexpected error occurred in generate_draft", ": ", e.name, " - ">>
    \o e.msg

\* lines 121-167: the except clauses, tried in the order written; the first
\* that names a class of the exception handles it
except_clauses(c, e, resp) ==
    IF "requests.ConnectionError" \in e.bases
    THEN Return(None, connection_error_msg(full_url(c.ollama_url)))
    ELSE IF "requests.Timeout" \in e.bases
    THEN Return(None, timeout_error_msg)
    ELSE IF "requests.HTTPError" \in e.bases
    THEN except_http_error(e, resp, c.env.decode_error)
    ELSE IF "requests.RequestException" \in e.bases
    THEN Return(None, request_error_msg(e))
    ELSE IF "json.JSONDecodeError" \in e.bases
    THEN Return(None, json_decode_error_msg(resp))
    ELSE Return(None, unexpected_error_msg(e))

\* how a call ends, and the requests it has sent
Ended(posts, ended) == [posts |-> posts, ended |-> ended]

\* variant: a connection error is tried a second time
generate_draft_retrying(c) ==
    LET t == try_block(c)
        u == try_block(c)
    IN  IF t.ended.raised /\ "requests.ConnectionError" \in t.ended.exc.bases
        THEN Ended(t.posts \o u.posts,
                   except_clauses(c, u.ended.exc, u.response))
        ELSE IF t.ended.raised
        THEN Ended(t.posts, except_clauses(c, t.ended.exc, t.response))
        ELSE Ended(t.posts, t.ended)

\* lines 23-167
generate_draft(c) ==
    LET t == try_block(c)
    IN  IF t.ended.raised
        THEN Ended(t.posts, except_clauses(c, t.ended.exc, t.response))
        ELSE Ended(t.posts, t.ended)

(* One call of generate_draft, with arguments and an environment drawn     *)
(* from Calls                                                              *)

Called == [pc |-> "called", draft |-> None, error |-> None, exc |-> "",
           posts |-> <<>>]

Finished(r) ==
    [pc    |-> IF r.ended.raised THEN "raised" ELSE "returned",
     draft |-> r.ended.draft,
     error |-> r.ended.error,
     exc   |-> r.ended.exc.class,
     posts |-> r.posts]

DraftInit ==
    /\ InitWindow
    /\ call \in Calls
    /\ gd = Called

GenerateDraft ==
    /\ gd.pc = "called"
    /\ gd' = Finished(generate_draft(call))
    /\ UNCHANGED <<call, windowVars>>

DraftNext == GenerateDraft

DraftSpec == DraftInit /\ [][DraftNext]_vars

----------------------------------------------------------------------------
(* Properties *)

Last(seq) == seq[Len(seq)]

OfSession(log, s) == SelectSeq(log, LAMBDA ev : ev.session = s)

IsTerminal(ev) == ev.kind \in {UPDATE_DONE, UPDATE_ERROR}

RECURSIVE Concat(_)
Concat(log) ==
    IF log = <<>> THEN <<>> ELSE Head(log).data \o Concat(Tail(log))

IsPrefix(a, b) == Len(a) <= Len(b) /\ a = SubSeq(b, 1, Len(a))

Running == { s \in Sessions : threads[s].pc = "running" }

\* the timer has just applied tuples, the last of them of this kind
JustApplied(kind) ==
    /\ lastAction.op = "check_ui_queue"
    /\ lastAction.applied > 0
    /\ Last(applied).kind = kind

\* C1: a call of start_generate_task while is_generating is true changes
\* nothing: is_generating, the queue, the displayed text, the status, the
\* button and the set of threads are as before, and nothing is put or applied.
C1_RejectedStartIsNoOp ==
    [][ (lastAction'.op = "start_generate_task" /\ is_generating)
        => UNCHANGED <<is_generating, ui_update_queue, draft, draft_state,
                       button, status, threads, produced, applied>> ]_vars

\* a call of start_generate_task was the last step, made while a generation
\* was in flight with a fragment applied and an event pending
C1_Witness ==
    /\ lastAction.op = "start_generate_task"
    /\ is_generating
    /\ status = "Generating..."
    /\ ui_update_queue # <<>>

\* C2: at most one generation thread is running at any time.
C2_AtMostOneWorker == Cardinality(Running) <= 1

\* C3: the events a generation's thread puts are zero or more CHUNKs and then
\* at most one terminal event, exactly one once the thread has ended, and the
\* events of that generation the UI has applied are a prefix of them.
C3_ChunksThenOneTerminal ==
    \A s \in Sessions :
        LET put == OfSession(produced, s)
            n   == Len(put)
        IN  /\ \A i \in 1 .. n : IsTerminal(put[i]) => i = n
            /\ threads[s].pc = "finished" <=> (n > 0 /\ IsTerminal(put[n]))
            /\ IsPrefix(OfSession(applied, s), put)

\* a generation has ended after a fragment and all its events are applied
C3_Witness ==
    \E s \in Sessions :
        /\ threads[s].pc = "finished"
        /\ Len(OfSession(produced, s)) >= 2
        /\ OfSession(applied, s) = OfSession(produced, s)

\* C4: whenever is_generating is true it is false again later.
C4_EventuallyIdle == is_generating ~> ~is_generating

\* a generation that failed in the thread has been reset to idle by the timer
C4_Witness ==
    /\ ~is_generating
    /\ JustApplied(UPDATE_ERROR)

\* C5: a thread whose call raised e has put exactly one ERROR, carrying the
\* type and the message of e, and has ended; when that ERROR is the last
\* thing the timer applied, the session is idle.
C5_RaiseBecomesError ==
    \A s \in Sessions :
        threads[s].exc # <<>> =>
            LET e      == threads[s].exc[1]
                errors == SelectSeq(OfSession(produced, s),
                                    LAMBDA ev : ev.kind = UPDATE_ERROR)
            IN  /\ Len(errors) = 1
                /\ \E i, j \in 1 .. Len(errors[1].data) :
                       /\ errors[1].data[i] = e.type
                       /\ errors[1].data[j] = e.msg
                /\ threads[s].pc = "finished"
                /\ (JustApplied(UPDATE_ERROR) /\ Last(applied) = errors[1])
                   => ~is_generating

\* the call of a generation raised after a fragment, and the timer has applied
\* the ERROR
C5_Witness ==
    \E s \in Sessions :
        /\ threads[s].exc # <<>>
        /\ Len(OfSession(produced, s)) >= 2
        /\ JustApplied(UPDATE_ERROR)
        /\ Last(applied).session = s

\* C6: the tuples applied so far, followed by the tuples waiting in the queue,
\* are the tuples put, in the order they were put: nothing is applied out of
\* order, twice, merged or not at all.
C6_AppliedInPutOrder == applied \o ui_update_queue = produced

\* tuples were applied by a tick, more were put since, by two generations
C6_Witness ==
    /\ Len(applied) >= 2
    /\ Len(ui_update_queue) >= 2
    /\ \E i, j \in 1 .. Len(produced) : produced[i].session # produced[j].session

\* C7: when the timer has just applied the DONE of a generation, the displayed
\* text is the concatenation of that generation's fragments, the session is
\* idle and the status reports success.
C7_DoneShowsConcatenation ==
    JustApplied(UPDATE_DONE)
    => /\ draft = Concat(Chunks(OfSession(produced, Last(applied).session)))
       /\ ~is_generating
       /\ status = "Draft generated successfully."

HasFragmentText(text) == \E i \in 1 .. Len(text) : <<text[i]>> \in Fragments

HasErrorText(text) == \E i \in 1 .. Len(text) : <<text[i]>> = error_prefix

\* C8: when the timer has just applied an ERROR, the displayed text is the
\* error prefix followed by the error detail and the session is idle; and the
\* displayed text never holds fragment text together with error text.
C8_ErrorReplacesOutput ==
    /\ JustApplied(UPDATE_ERROR)
       => /\ draft = error_prefix \o Last(applied).data
          /\ ~is_generating
    /\ ~(HasFragmentText(draft) /\ HasErrorText(draft))

\* C9: a step of a worker thread leaves all UI-owned state as it was; its one
\* effect on shared state is to append to the queue.
C9_WorkerOnlyPuts ==
    [][ lastAction'.thread = "worker"
        => /\ UNCHANGED <<uiVars, applied>>
           /\ IsPrefix(ui_update_queue, ui_update_queue')
           /\ Len(ui_update_queue') > Len(ui_update_queue) ]_vars

\* a worker put a fragment while its generation was in flight with text shown
C9_Witness ==
    /\ lastAction.thread = "worker"
    /\ is_generating
    /\ draft # <<>>
    /\ ui_update_queue # <<>>
    /\ Last(ui_update_queue).kind = UPDATE_CHUNK

\* C10: a timer tick that finds the queue empty changes nothing.
C10_EmptyTickIsNoOp ==
    [][ (lastAction'.op = "check_ui_queue" /\ ui_update_queue = <<>>)
        => UNCHANGED <<uiVars, ui_update_queue, threads, produced, applied>>
      ]_vars

\* the timer ticked on an empty queue while a generation was in flight
C10_Witness ==
    /\ lastAction.op = "check_ui_queue"
    /\ ui_update_queue = <<>>
    /\ is_generating
    /\ status = "Generating draft..."

----------------------------------------------------------------------------
(* The polling timer *)

\* C11: at every moment exactly one check_ui_queue callback is scheduled: each
\* run of check_ui_queue, also one that process_ui_update ends with an
\* exception, schedules exactly one further run, and no other handler
\* schedules or cancels one.
C11_OneTickPending == after_pending = 1

\* a tick ended with an exception during a second generation, after a first
\* generation was started and its events applied
C11_Witness ==
    /\ lastAction.op = "check_ui_queue raised"
    /\ Len(threads) = 2
    /\ \E i \in 1 .. Len(applied) : applied[i].session = 1
    /\ Last(applied).session = 2

----------------------------------------------------------------------------
(* The rejected start *)

\* C12: a call of start_generate_task rejected because a generation is in
\* flight changes the status shown to the user, to report the rejection.
C12_RejectionShownInStatus ==
    [][ (lastAction'.op = "start_generate_task" /\ is_generating)
        => status' # status ]_vars

----------------------------------------------------------------------------
(* generate_draft *)

\* the call has ended, by returning or by raising
Done == gd.pc \in {"returned", "raised"}

\* the call returned (None, message), the message of this kind
Failure(kind) ==
    /\ gd.pc = "returned"
    /\ gd.draft = None
    /\ gd.error # None
    /\ Head(gd.error) = kind

Refused == call.env.post = ConnectionRefused

Answered == call.env.post = NoExc

SuccessStatus == call.env.status_code \in 200 .. 299

\* C13, as stated: when the connection is refused, generate_draft returns no
\* draft and one "Connection Error" message that contains the configured
\* endpoint URL.
C13_ConnectFailedNamesEndpoint ==
    (Done /\ Refused)
    => /\ Failure("Connection Error")
       /\ Contains(gd.error, call.ollama_url)

\* C13, amended: when the connection is refused, generate_draft returns no
\* draft and one "Connection Error" message that contains the configured
\* endpoint URL with its trailing slashes removed.
C13_ConnectFailedNamesStrippedEndpoint ==
    (Done /\ Refused)
    => /\ Failure("Connection Error")
       /\ Contains(gd.error, rstrip_chars(call.ollama_url, {"/"}))

\* the connection was refused for an endpoint configured with trailing slashes
C13_Witness ==
    /\ Done
    /\ Refused
    /\ call.ollama_url = DEFAULT_OLLAMA_URL \o <<"/", "/">>

\* C14: when a deadline expires, at connect or at read, generate_draft returns
\* no draft and a "Timeout Error" message, never a message of another kind.
C14_TimeoutIsTimeoutKind ==
    (Done /\ "requests.Timeout" \in call.env.post.bases)
    => Failure("Timeout Error")

\* C15: when the response has a non-success status, generate_draft returns no
\* draft and one "HTTP Error" message that contains the status code and, for
\* a body that is a JSON object with an error field, the text of that field,
\* and for every other body the raw body text.
C15_HttpErrorNamesStatusAndDetail ==
    (Done /\ Answered /\ ~SuccessStatus)
    => LET body == Bodies[call.env.body]
       IN  /\ Failure("HTTP Error")
           /\ Contains(gd.error, <<ToString(call.env.status_code)>>)
           /\ IF /\ body.valid
                 /\ ~body.deep
                 /\ body.json.kind = "object"
                 /\ "error" \in Keys(body.json)
              THEN Contains(gd.error, py_str(Lookup(body.json, "error")))
              ELSE Contains(gd.error, body.text)

\* C16: when the response has a success status and a body that is not JSON,
\* generate_draft returns no draft and one "JSON Decode Error" message that
\* contains the raw body text, whatever class of exception response.json()
\* raised.
C16_DecodeFailureIsDecodeKind ==
    (Done /\ Answered /\ SuccessStatus /\ ~Bodies[call.env.body].valid)
    => /\ Failure("JSON Decode Error")
       /\ Contains(gd.error, Bodies[call.env.body].text)

\* C17: of the pair generate_draft returns, exactly one component is None.
C17_ExactlyOneIsNone ==
    gd.pc = "returned" => ((gd.draft = None) # (gd.error = None))

\* the call returned the content of the answer, stripped, and no error
C17_Witness ==
    /\ gd.pc = "returned"
    /\ gd.draft = <<"Sure, I can.">>
    /\ gd.error = None

\* C18: no exception leaves generate_draft: whatever is raised while the
\* request is sent or the response handled, the call returns a failure.
C18_NothingPropagates ==
    Done => (gd.pc = "returned" /\ gd.exc = "")

\* C19: a call of generate_draft that has ended has made exactly one POST.
C19_ExactlyOnePost == Done => Len(gd.posts) = 1

\* a call that could not connect has ended, with one POST made
C19_Witness ==
    /\ Failure("Connection Error")
    /\ Len(gd.posts) = 1

\* C20, as stated: every request sent has stream set to true.
C20_StreamTrue ==
    \A i \in 1 .. Len(gd.posts) : gd.posts[i].json.stream = TRUE

\* C20, amended: every request sent has stream set to false.
C20_StreamFalse ==
    \A i \in 1 .. Len(gd.posts) : gd.posts[i].json.stream = FALSE

\* a request was sent to the chat endpoint and answered with a draft
C20_Witness ==
    /\ gd.pc = "returned"
    /\ gd.error = None
    /\ Len(gd.posts) = 1
    /\ gd.posts[1].url = DEFAULT_OLLAMA_URL \o <<"/", "api", "/", "chat">>

----------------------------------------------------------------------------
(* generate_draft: the response looked into, the request sent *)

\* the body of the response, as sent and as it parses
ResponseBody == Bodies[call.env.body]

\* the response has a success status and a body that parses as JSON
OkJson ==
    /\ Answered
    /\ SuccessStatus
    /\ ResponseBody.valid
    /\ ~ResponseBody.deep

IsObject(v) == v.kind = "object"

DoneTrue(v) == IsObject(v) /\ "done" \in Keys(v) /\ Lookup(v, "done") = JTrue

\* v is an object whose message is an object with a content
HasContent(v) ==
    /\ IsObject(v)
    /\ "message" \in Keys(v)
    /\ IsObject(Lookup(v, "message"))
    /\ "content" \in Keys(Lookup(v, "message"))

ContentOf(v) == Lookup(Lookup(v, "message"), "content")

HasContentText(v) == HasContent(v) /\ ContentOf(v).kind = "string"

\* the call returned (text, None)
Succeeded ==
    /\ gd.pc = "returned"
    /\ gd.draft # None
    /\ gd.error = None

\* C21, as stated: a response with done true gives the success outcome,
\* whether or not it carries message content.
C21_DoneTrueIsSuccess ==
    (Done /\ OkJson /\ DoneTrue(ResponseBody.json)) => Succeeded

\* C21, amended: done is not consulted: a response that is a JSON object,
\* with done true or without, gives the success outcome exactly when it
\* carries a message content that is a text, and a failure otherwise.
C21_SuccessIffContent ==
    (Done /\ OkJson /\ IsObject(ResponseBody.json))
    => /\ Succeeded <=> HasContentText(ResponseBody.json)
       /\ ~Succeeded => (gd.pc = "returned" /\ gd.draft = None)

\* a response with done true and no message was answered with the failure
\* "Unexpected response format"
C21_Witness ==
    /\ Done
    /\ OkJson
    /\ DoneTrue(ResponseBody.json)
    /\ "message" \notin Keys(ResponseBody.json)
    /\ Failure("Unexpected response format from Ollama")

\* C22: a response received with a success status that carries a non-empty
\* error field makes generate_draft return one failure whose message contains
\* the text of that field.
C22_ErrorFieldIsReported ==
    (/\ Done
     /\ OkJson
     /\ IsObject(ResponseBody.json)
     /\ "error" \in Keys(ResponseBody.json)
     /\ Lookup(ResponseBody.json, "error").kind = "string"
     /\ Lookup(ResponseBody.json, "error").text # <<>>)
    => /\ gd.pc = "returned"
       /\ gd.draft = None
       /\ gd.error # None
       /\ Contains(gd.error, Lookup(ResponseBody.json, "error").text)

\* C23: a success-status response that is a JSON object without a message,
\* or whose message has no content, makes generate_draft return (None, error)
\* with an "Unexpected response format" message, whatever the message is and
\* whether or not done is true.
C23_MissingKeyIsUnexpectedFormat ==
    (Done /\ OkJson /\ IsObject(ResponseBody.json)
          /\ ~HasContent(ResponseBody.json))
    => Failure("Unexpected response format from Ollama")

\* C24: on a success-status response whose message.content is a text,
\* generate_draft returns (the content without its leading and trailing
\* whitespace, None): the draft is what stripping the content gives, stripping
\* it again changes nothing, and it neither starts nor ends with whitespace.
C24_ContentIsStripped ==
    (Done /\ OkJson /\ HasContentText(ResponseBody.json))
    => /\ Succeeded
       /\ gd.draft = strip(ContentOf(ResponseBody.json).text)
       /\ strip(gd.draft) = gd.draft
       /\ gd.draft # <<>>
          => (Head(gd.draft) \notin Whitespace
              /\ gd.draft[Len(gd.draft)] \notin Whitespace)
       /\ \E i \in 0 .. Len(ContentOf(ResponseBody.json).text) :
            \E j \in 0 .. Len(ContentOf(ResponseBody.json).text) :
              /\ i + j + Len(gd.draft) = Len(ContentOf(ResponseBody.json).text)
              /\ gd.draft = SubSeq(ContentOf(ResponseBody.json).text,
                                   i + 1, i + Len(gd.draft))
              /\ \A k \in 1 .. i :
                    ContentOf(ResponseBody.json).text[k] \in Whitespace
              /\ \A k \in 1 .. j :
                    ContentOf(ResponseBody.json).text[i + Len(gd.draft) + k]
                      \in Whitespace

\* a content with line breaks and blanks on both sides and a blank inside was
\* returned with the inner blank kept
C24_Witness ==
    /\ Succeeded
    /\ OkJson
    /\ ContentOf(ResponseBody.json).text
         = <<"\n", " ", "Sure,", " ", "I can.", "\t", " ">>
    /\ gd.draft = <<"Sure,", " ", "I can.">>

\* no two "/" follow each other in the URL
NoDoubleSlash(url) ==
    \A i \in 1 .. Len(url) - 1 : ~(url[i] = "/" /\ url[i + 1] = "/")

\* C25: every request is a POST to the configured base URL without its
\* trailing slashes, followed by /api/chat with no double slash, and carries
\* the timeout, the model given, and one message, of role user, whose content
\* contains the original message and the instruction as given.
C25_RequestShape ==
    \A i \in 1 .. Len(gd.posts) :
        LET req == gd.posts[i]
        IN  /\ req.method = "POST"
            /\ req.url = rstrip_chars(call.ollama_url, {"/"})
                            \o <<"/", "api", "/", "chat">>
            /\ NoDoubleSlash(req.url)
            /\ req.timeout = REQUEST_TIMEOUT
            /\ req.json.model = call.model
            /\ Len(req.json.messages) = 1
            /\ req.json.messages[1].role = "user"
            /\ Contains(req.json.messages[1].content, call.original_message)
            /\ Contains(req.json.messages[1].content, call.instruction)

\* a request was sent for a base URL configured with trailing slashes, a
\* model named by the caller and a message with blanks and line breaks
C25_Witness ==
    /\ Done
    /\ Len(gd.posts) = 1
    /\ call.ollama_url = DEFAULT_OLLAMA_URL \o <<"/", "/">>
    /\ call.model # DEFAULT_MODEL
    /\ Head(call.original_message) = " "

----------------------------------------------------------------------------
(* The inputs of a generation *)

\* C26: a generation is started with non-empty texts only: a thread started
\* by start_generate_task holds a non-empty original message and a non-empty
\* instruction, and a call that finds an input box empty once trimmed leaves
\* is_generating false, starts no thread, puts nothing on the queue and
\* leaves the output box as it was.
C26_NoRequestWithoutInputs ==
    [][ /\ lastAction'.op = "start_generate_task: Input Required"
           => /\ ~is_generating'
              /\ UNCHANGED <<is_generating, threads, ui_update_queue, produced,
                             applied, draft, draft_state>>
        /\ Len(threads') # Len(threads)
           => /\ Len(threads') = Len(threads) + 1
              /\ Last(threads').request.original_message # <<>>
              /\ Last(threads').request.instruction # <<>>
              /\ lastAction'.op = "start_generate_task" ]_vars

\* a call of start_generate_task with an empty input box was the last step,
\* made after a generation that left its draft in the output box
C26_Witness ==
    /\ lastAction.op = "start_generate_task: Input Required"
    /\ ~is_generating
    /\ threads # <<>>
    /\ draft # <<>>
    /\ status = "Draft generated successfully."

----------------------------------------------------------------------------
(* The tick and the queue *)

\* C27: a run of check_ui_queue removes and applies every tuple that was on
\* the queue when it began, in order, and leaves the queue empty, also when
\* process_ui_update raises on one of them.
C27_TickDrainsQueue ==
    [][ lastAction'.op \in {"check_ui_queue", "check_ui_queue raised"}
        => /\ ui_update_queue' = <<>>
           /\ applied' = applied \o ui_update_queue ]_vars

----------------------------------------------------------------------------
(* Generations kept apart *)

\* the tuples the step took from the queue and handed to process_ui_update
NewlyApplied == SubSeq(applied', Len(applied) + 1, Len(applied'))

\* C28: while a generation is in flight, every tuple applied to the output
\* box or to is_generating was put by the thread of that generation (the
\* last one started): in a run of check_ui_queue that begins with
\* is_generating true, every tuple applied up to and including the first
\* DONE or ERROR is of the last generation started.
C28_SessionsIsolated ==
    [][ (lastAction'.op = "check_ui_queue" /\ is_generating)
        => \A i \in 1 .. Len(NewlyApplied) :
             (\A j \in 1 .. i - 1 : ~IsTerminal(NewlyApplied[j]))
             => NewlyApplied[i].session = Len(threads) ]_vars

----------------------------------------------------------------------------
(* The button and the flag *)

\* C29: in every reachable state the Generate button is disabled exactly when
\* is_generating is true.
C29_ButtonFollowsFlag == (button = "disabled") <=> is_generating

\* Clear All was pressed during a generation whose thread is still running:
\* the flag is false and the button enabled
C29_Witness ==
    /\ lastAction.op = "clear_all_fields"
    /\ Running # {}
    /\ ~is_generating
    /\ button = "normal"
    /\ applied # <<>>

====
